---- MODULE Spec2Model ----
(***************************************************************************)
(* Model of the bit_field crate (src/src/lib.rs): the BitField trait as    *)
(* implemented by bitfield_numeric_impl! for the integer types, and the    *)
(* BitArray trait as implemented for slices [T].                           *)
(*                                                                         *)
(* A machine word of type T is modelled by its bit pattern: the set of the *)
(* bit positions (0 = least significant) that hold a 1.  The operators of  *)
(* Rust on integers are modelled on bit patterns: << discards the bits     *)
(* shifted past the width, >> is a logical shift for the unsigned types    *)
(* and an arithmetic (sign-replicating) shift for the signed ones.         *)
(* A panic (failed assert!, slice index out of bounds, usize underflow) is *)
(* modelled by a result whose panic field is TRUE.                         *)
(***************************************************************************)
EXTENDS Integers, Sequences, FiniteSets

VARIABLES T, self, arr, budget, call, ret

vars == <<T, self, arr, budget, call, ret>>

\* Width, in bits, of the scaled-down integer types the exhaustive
\* specifications range over (the crate's types have 8 to 64 bits).
Bits == 4

\* Number of words of the slices the exhaustive specification ranges over.
MaxLen == 2

\* Number of consecutive calls in the documentation scenario.
MaxCalls == 3

----------------------------------------------------------------------------
(* Integer types and bit patterns *)

\* fn bit_length() -> u8 : size_of::<Self>() * 8
bit_length == T.bits

\* TRUE for i8 .. isize, FALSE for u8 .. usize
signed == T.signed

AllBits == 0 .. (bit_length - 1)

Words == SUBSET AllBits

\* the literal 0
Zero == {}

\* the literal 1
One == {0}

RECURSIVE Pow2(_)
Pow2(n) == IF n = 0 THEN 1 ELSE 2 * Pow2(n - 1)

\* an integer literal n (0 <= n < 2^31) as a bit pattern of type T
Lit(n) == {i \in AllBits : i < 31 /\ (n \div Pow2(i)) % 2 = 1}

\* x << n  (n < bit_length): bits shifted past the top are lost
Shl(x, n) == {i + n : i \in x} \cap AllBits

\* x >> n  (n < bit_length): zero fill for unsigned T, sign fill for signed T
Shr(x, n) ==
    {i - n : i \in {j \in x : j >= n}}
        \cup (IF signed /\ (bit_length - 1) \in x
              THEN (bit_length - n) .. (bit_length - 1)
              ELSE {})

\* !x
Not(x) == AllBits \ x

\* x & y
And(x, y) == x \cap y

\* x | y
Or(x, y) == x \cup y

Panic == [panic |-> TRUE, val |-> Zero]

Ok(v) == [panic |-> FALSE, val |-> v]

----------------------------------------------------------------------------
(* impl BitField for $t *)

BitField_get_bit(w, bit) ==
    IF ~(bit < bit_length) THEN Panic
    ELSE Ok(And(w, Shl(One, bit)) # Zero)

BitField_get_bits(w, start, end) ==
    IF ~(start < bit_length) \/ ~(end <= bit_length) \/ ~(start < end)
    THEN Panic
    ELSE LET bits == Shr(Shl(w, bit_length - end), bit_length - end)
         IN  Ok(Shr(bits, start))


\* set_bit whose clearing branch lacks the complement of the mask
BitField_set_bit_no_complement(w, bit, value) ==
    IF ~(bit < bit_length) THEN Panic
    ELSE IF value THEN Ok(Or(w, Shl(One, bit)))
         ELSE Ok(And(w, Shl(One, bit)))

BitField_set_bit(w, bit, value) ==
    IF ~(bit < bit_length) THEN Panic
    ELSE IF value THEN Ok(Or(w, Shl(One, bit)))
         ELSE Ok(And(w, Not(Shl(One, bit))))

\* the assert "value does not fit into bit range" of set_bits
ValueFits(value, start, end) ==
    Shr(Shl(value, bit_length - (end - start)), bit_length - (end - start))
        = value


\* bitmask that is not shifted back up to the start of the range
Bitmask_unshifted(start, end) ==
    Not(Shr(Shr(Shl(Not(Zero), bit_length - end), bit_length - end), start))

\* the bitmask of set_bits
Bitmask(start, end) ==
    Not(Shl(Shr(Shr(Shl(Not(Zero), bit_length - end), bit_length - end),
                start), start))

BitField_set_bits(w, start, end, value) ==
    IF ~(start < bit_length) \/ ~(end <= bit_length) \/ ~(start < end)
    THEN Panic
    ELSE IF ~ValueFits(value, start, end) THEN Panic
    ELSE Ok(Or(And(w, Bitmask(start, end)), Shl(value, start)))

----------------------------------------------------------------------------
(* Calls on a word *)

NoCall == [fn |-> "none", start |-> 0, end |-> 0, value |-> Zero,
           flag |-> FALSE, self0 |-> Zero, arr0 |-> <<>>]

Called(f, s, e, v, b) ==
    [fn |-> f, start |-> s, end |-> e, value |-> v, flag |-> b,
     self0 |-> self, arr0 |-> arr]

\* a call consumes one unit of the caller's budget of calls
Spend ==
    /\ budget > 0
    /\ budget' = budget - 1

\* bit indices and range ends a caller may pass for a word, valid or not
WordIdx == 0 .. (bit_length + 1)

WordGetBit ==
    /\ Spend
    /\ \E bit \in WordIdx :
          /\ call' = Called("BitField::get_bit", bit, bit, Zero, FALSE)
          /\ ret' = BitField_get_bit(self, bit)
    /\ UNCHANGED <<T, self, arr>>

WordGetBits ==
    /\ Spend
    /\ \E start \in WordIdx, end \in WordIdx :
          /\ call' = Called("BitField::get_bits", start, end, Zero, FALSE)
          /\ ret' = BitField_get_bits(self, start, end)
    /\ UNCHANGED <<T, self, arr>>

WordSetBit ==
    /\ Spend
    /\ \E bit \in WordIdx, value \in BOOLEAN :
          /\ call' = Called("BitField::set_bit", bit, bit, Zero, value)
          /\ LET r == BitField_set_bit(self, bit, value)
             IN  /\ ret' = r
                 /\ self' = IF r.panic THEN self ELSE r.val
    /\ UNCHANGED <<T, arr>>

WordSetBits ==
    /\ Spend
    /\ \E start \in WordIdx, end \in WordIdx, value \in Words :
          /\ call' = Called("BitField::set_bits", start, end, value, FALSE)
          /\ LET r == BitField_set_bits(self, start, end, value)
             IN  /\ ret' = r
                 /\ self' = IF r.panic THEN self ELSE r.val
    /\ UNCHANGED <<T, arr>>

----------------------------------------------------------------------------
(* impl<T: BitField> BitArray<T> for [T] *)

\* result of an operation that mutates the slice: whether it panicked and
\* the contents of the slice when it returned or panicked
ArrRes(p, a) == [panic |-> p, val |-> a]

\* self[i] is in bounds (the slice is indexed from 0, the sequence from 1)
InBounds(a, i) == i >= 0 /\ i < Len(a)

\* Range<usize>::len()
RangeLen(start, end) == IF start < end THEN end - start ELSE 0

BitArray_bit_length(a) == Len(a) * bit_length

BitArray_get_bit(a, bit) ==
    LET slice_index == bit \div bit_length
        bit_index   == bit % bit_length
    IN  IF ~InBounds(a, slice_index) THEN Panic
        ELSE BitField_get_bit(a[slice_index + 1], bit_index)


\* get_bits without the case of a range that ends on a word boundary
BitArray_get_bits_no_boundary_case(a, start, end) ==
    LET slice_start == start \div bit_length
        slice_end   == end \div bit_length
        bit_start   == start % bit_length
        bit_end     == end % bit_length
        len         == RangeLen(start, end)
    IN  IF ~(len <= bit_length) THEN Panic
        ELSE IF slice_end < slice_start \/ ~(slice_end - slice_start <= 1)
        THEN Panic
        ELSE IF slice_start = slice_end THEN
            IF ~InBounds(a, slice_start) THEN Panic
            ELSE BitField_get_bits(a[slice_start + 1], bit_start, bit_end)
        ELSE
            IF ~InBounds(a, slice_start) THEN Panic
            ELSE LET r == BitField_get_bits(a[slice_start + 1], bit_start,
                                            bit_length)
                 IN  IF r.panic THEN Panic
                     ELSE IF ~InBounds(a, slice_end) THEN Panic
                     ELSE LET h == BitField_get_bits(a[slice_end + 1], 0,
                                                     bit_end)
                          IN  IF h.panic THEN Panic
                              ELSE BitField_set_bits(r.val,
                                       bit_length - bit_start, len, h.val)

BitArray_get_bits(a, start, end) ==
    LET slice_start == start \div bit_length
        slice_end   == end \div bit_length
        bit_start   == start % bit_length
        bit_end     == end % bit_length
        len         == RangeLen(start, end)
    IN  IF ~(len <= bit_length) THEN Panic
        \* slice_end - slice_start underflows (debug build) or wraps to a
        \* value above 1 and fails the assert (release build)
        ELSE IF slice_end < slice_start \/ ~(slice_end - slice_start <= 1)
        THEN Panic
        ELSE IF slice_start = slice_end THEN
            IF ~InBounds(a, slice_start) THEN Panic
            ELSE BitField_get_bits(a[slice_start + 1], bit_start, bit_end)
        ELSE IF bit_end = 0 THEN
            IF ~InBounds(a, slice_start) THEN Panic
            ELSE BitField_get_bits(a[slice_start + 1], bit_start, bit_length)
        ELSE
            IF ~InBounds(a, slice_start) THEN Panic
            ELSE LET r == BitField_get_bits(a[slice_start + 1], bit_start,
                                            bit_length)
                 IN  IF r.panic THEN Panic
                     ELSE IF ~InBounds(a, slice_end) THEN Panic
                     ELSE LET h == BitField_get_bits(a[slice_end + 1], 0,
                                                     bit_end)
                          IN  IF h.panic THEN Panic
                              ELSE BitField_set_bits(r.val,
                                       bit_length - bit_start, len, h.val)

BitArray_set_bit(a, bit, value) ==
    LET slice_index == bit \div bit_length
        bit_index   == bit % bit_length
    IN  IF ~InBounds(a, slice_index) THEN ArrRes(TRUE, a)
        ELSE LET r == BitField_set_bit(a[slice_index + 1], bit_index, value)
             IN  IF r.panic THEN ArrRes(TRUE, a)
                 ELSE ArrRes(FALSE, [a EXCEPT ![slice_index + 1] = r.val])

\* self[i].set_bits(s..e, v) on the slice a
SetWord(a, i, s, e, v) ==
    IF ~InBounds(a, i) THEN ArrRes(TRUE, a)
    ELSE LET r == BitField_set_bits(a[i + 1], s, e, v)
         IN  IF r.panic THEN ArrRes(TRUE, a)
             ELSE ArrRes(FALSE, [a EXCEPT ![i + 1] = r.val])


\* set_bits without the assert that the range fits in one word
BitArray_set_bits_no_width_assert(a, start, end, value) ==
    LET slice_start == start \div bit_length
        slice_end   == end \div bit_length
        bit_start   == start % bit_length
        bit_end     == end % bit_length
    IN  IF slice_end < slice_start \/ ~(slice_end - slice_start <= 1)
        THEN ArrRes(TRUE, a)
        ELSE IF slice_start = slice_end THEN
            SetWord(a, slice_start, bit_start, bit_end, value)
        ELSE IF bit_end = 0 THEN
            SetWord(a, slice_start, bit_start, bit_length, value)
        ELSE
            IF ~InBounds(a, slice_start) THEN ArrRes(TRUE, a)
            ELSE LET lo == BitField_get_bits(value, 0, bit_length - bit_start)
                 IN  IF lo.panic THEN ArrRes(TRUE, a)
                     ELSE LET r1 == SetWord(a, slice_start, bit_start,
                                            bit_length, lo.val)
                          IN  IF r1.panic THEN r1
                              ELSE IF ~InBounds(r1.val, slice_end)
                              THEN ArrRes(TRUE, r1.val)
                              ELSE LET hi == BitField_get_bits(value,
                                                 bit_length - bit_start,
                                                 bit_length)
                                   IN  IF hi.panic THEN ArrRes(TRUE, r1.val)
                                       ELSE SetWord(r1.val, slice_end, 0,
                                                    bit_end, hi.val)

\* set_bits that writes the high half of the value to the first word and the
\* low half to the second
BitArray_set_bits_swapped_halves(a, start, end, value) ==
    LET slice_start == start \div bit_length
        slice_end   == end \div bit_length
        bit_start   == start % bit_length
        bit_end     == end % bit_length
    IN  IF ~(RangeLen(start, end) <= bit_length) THEN ArrRes(TRUE, a)
        ELSE IF slice_end < slice_start \/ ~(slice_end - slice_start <= 1)
        THEN ArrRes(TRUE, a)
        ELSE IF slice_start = slice_end THEN
            SetWord(a, slice_start, bit_start, bit_end, value)
        ELSE IF bit_end = 0 THEN
            SetWord(a, slice_start, bit_start, bit_length, value)
        ELSE
            IF ~InBounds(a, slice_start) THEN ArrRes(TRUE, a)
            ELSE LET lo == BitField_get_bits(value, bit_length - bit_start,
                                                bit_length)
                 IN  IF lo.panic THEN ArrRes(TRUE, a)
                     ELSE LET r1 == SetWord(a, slice_start, bit_start,
                                            bit_length, lo.val)
                          IN  IF r1.panic THEN r1
                              ELSE IF ~InBounds(r1.val, slice_end)
                              THEN ArrRes(TRUE, r1.val)
                              ELSE LET hi == BitField_get_bits(value, 0,
                                                 bit_length - bit_start)
                                   IN  IF hi.panic THEN ArrRes(TRUE, r1.val)
                                       ELSE SetWord(r1.val, slice_end, 0,
                                                    bit_end, hi.val)

BitArray_set_bits(a, start, end, value) ==
    LET slice_start == start \div bit_length
        slice_end   == end \div bit_length
        bit_start   == start % bit_length
        bit_end     == end % bit_length
    IN  IF ~(RangeLen(start, end) <= bit_length) THEN ArrRes(TRUE, a)
        ELSE IF slice_end < slice_start \/ ~(slice_end - slice_start <= 1)
        THEN ArrRes(TRUE, a)
        ELSE IF slice_start = slice_end THEN
            SetWord(a, slice_start, bit_start, bit_end, value)
        ELSE IF bit_end = 0 THEN
            SetWord(a, slice_start, bit_start, bit_length, value)
        ELSE
            IF ~InBounds(a, slice_start) THEN ArrRes(TRUE, a)
            ELSE LET lo == BitField_get_bits(value, 0, bit_length - bit_start)
                 IN  IF lo.panic THEN ArrRes(TRUE, a)
                     ELSE LET r1 == SetWord(a, slice_start, bit_start,
                                            bit_length, lo.val)
                          IN  IF r1.panic THEN r1
                              ELSE IF ~InBounds(r1.val, slice_end)
                              THEN ArrRes(TRUE, r1.val)
                              ELSE LET hi == BitField_get_bits(value,
                                                 bit_length - bit_start,
                                                 bit_length)
                                   IN  IF hi.panic THEN ArrRes(TRUE, r1.val)
                                       ELSE SetWord(r1.val, slice_end, 0,
                                                    bit_end, hi.val)

----------------------------------------------------------------------------
(* Calls on a slice *)

\* bit indices and range ends a caller may pass for the slice, valid or not
ArrIdx == 0 .. (BitArray_bit_length(arr) + 2)

GetBitsCall(start, end) ==
    /\ call' = Called("BitArray::get_bits", start, end, Zero, FALSE)
    /\ ret' = BitArray_get_bits(arr, start, end)
    /\ UNCHANGED <<T, self, arr>>

SetBitsCall(start, end, value) ==
    /\ call' = Called("BitArray::set_bits", start, end, value, FALSE)
    /\ LET r == BitArray_set_bits(arr, start, end, value)
       IN  /\ ret' = [panic |-> r.panic, val |-> Zero]
           /\ arr' = r.val
    /\ UNCHANGED <<T, self>>

ArrGetBit ==
    /\ Spend
    /\ \E bit \in ArrIdx :
          /\ call' = Called("BitArray::get_bit", bit, bit, Zero, FALSE)
          /\ ret' = BitArray_get_bit(arr, bit)
    /\ UNCHANGED <<T, self, arr>>

ArrGetBits ==
    /\ Spend
    /\ \E start \in ArrIdx, end \in ArrIdx : GetBitsCall(start, end)

ArrSetBit ==
    /\ Spend
    /\ \E bit \in ArrIdx, value \in BOOLEAN :
          /\ call' = Called("BitArray::set_bit", bit, bit, Zero, value)
          /\ LET r == BitArray_set_bit(arr, bit, value)
             IN  /\ ret' = [panic |-> r.panic, val |-> Zero]
                 /\ arr' = r.val
    /\ UNCHANGED <<T, self>>

ArrSetBits ==
    /\ Spend
    /\ \E start \in ArrIdx, end \in ArrIdx, value \in Words :
          SetBitsCall(start, end, value)

----------------------------------------------------------------------------
(* Specifications *)

\* the integer types, unsigned and signed, scaled down to Bits bits
ScaledTypes == [bits : {Bits}, signed : BOOLEAN]

\* words a slice holds initially: all zeros, all ones, alternating bits
ArrWords ==
    {Zero, Not(Zero), {i \in AllBits : i % 2 = 0}, {i \in AllBits : i % 2 = 1}}

\* One call, on a word (any word of a scaled type) or on a slice of MaxLen
\* words.
Init ==
    /\ T \in ScaledTypes
    /\ \/ self \in Words /\ arr = <<>>
       \/ self = Zero /\ arr \in [1 .. MaxLen -> ArrWords]
    /\ budget = 1
    /\ call = NoCall
    /\ ret = Ok(Zero)

Next ==
    \/ WordGetBit
    \/ WordGetBits
    \/ WordSetBit
    \/ WordSetBits
    \/ ArrGetBit
    \/ ArrGetBits
    \/ ArrSetBit
    \/ ArrSetBits

Spec == Init /\ [][Next]_vars

\* The documentation examples of BitArray::get_bits and BitArray::set_bits:
\* up to MaxCalls calls on a slice of two u32 words that starts as [0, 0].
U32 == [bits |-> 32, signed |-> FALSE]

DocRanges == {<<0, 2>>, <<0, 3>>, <<31, 33>>, <<31, 35>>}

DocValues == {Lit(3), Lit(10)}

DocGetBits ==
    /\ Spend
    /\ \E r \in DocRanges : GetBitsCall(r[1], r[2])

DocSetBits ==
    /\ Spend
    /\ \E r \in DocRanges, value \in DocValues : SetBitsCall(r[1], r[2], value)

InitDoc ==
    /\ T = U32
    /\ self = Zero
    /\ arr = <<Zero, Zero>>
    /\ budget = MaxCalls
    /\ call = NoCall
    /\ ret = Ok(Zero)

NextDoc ==
    \/ DocGetBits
    \/ DocSetBits

SpecDoc == InitDoc /\ [][NextDoc]_vars

----------------------------------------------------------------------------
(* Vocabulary of the properties *)

\* the value whose bit k is bit start + k of w, for start <= start + k < end
Field(w, start, end) == {j - start : j \in {i \in w : start <= i /\ i < end}}

\* w with exactly the bits [start, end) replaced by the low bits of v
Replaced(w, start, end, v) ==
    {i \in w : i < start \/ i >= end} \cup {k + start : k \in v}

\* v has no 1 at a position >= n
FitsIn(v, n) == \A k \in v : k < n

\* bit p of the flat bit space of the slice a
FlatBit(a, p) == (p % bit_length) \in a[(p \div bit_length) + 1]

\* the arguments of the last call
s0 == call.start

e0 == call.end

ValidWordRange == s0 < e0 /\ e0 <= bit_length

ValidArrRange ==
    /\ s0 < e0
    /\ e0 <= BitArray_bit_length(call.arr0)
    /\ e0 - s0 <= bit_length

\* the range of the last call has its two ends in different words and does
\* not end on the boundary between them
Crossing ==
    /\ s0 \div bit_length # e0 \div bit_length
    /\ e0 % bit_length # 0

----------------------------------------------------------------------------
(* C1 *)

\* C1: on a slice of unsigned words, for a range [s,e) with s < e <= len*W
\* and e-s <= W, BitArray::get_bits returns the value whose bit k < e-s is
\* bit (s+k) mod W of word (s+k) div W and whose bits at positions >= e-s
\* are zero, whether the range lies in one word, ends on a word boundary or
\* crosses one.
C1_ArrayGetBits ==
    (call.fn = "BitArray::get_bits" /\ ~signed /\ ValidArrRange)
        => /\ ~ret.panic
           /\ ret.val = {k \in AllBits :
                            k < e0 - s0 /\ FlatBit(call.arr0, s0 + k)}

\* a read across a word boundary that takes a 1 from each of the two words
C1_Witness ==
    /\ call.fn = "BitArray::get_bits" /\ ~signed /\ ValidArrRange /\ Crossing
    /\ ~ret.panic
    /\ 0 \in ret.val
    /\ (e0 - s0 - 1) \in ret.val
    /\ ret.val # Not(Zero)

----------------------------------------------------------------------------
(* C2 *)

\* C2: on a slice of unsigned words, for a range [s,e) with s < e <= len*W
\* and e-s <= W and a value below 2^(e-s), BitArray::set_bits returns, a
\* following get_bits(s..e) returns the value, and every bit of the slice
\* outside the flat positions [s,e) is as before.
C2_ArraySetBits ==
    (/\ call.fn = "BitArray::set_bits" /\ ~signed /\ ValidArrRange
     /\ FitsIn(call.value, e0 - s0))
        => /\ ~ret.panic
           /\ BitArray_get_bits(arr, s0, e0) = Ok(call.value)
           /\ Len(arr) = Len(call.arr0)
           /\ \A p \in 0 .. (BitArray_bit_length(arr) - 1) :
                 (p < s0 \/ p >= e0)
                     => (FlatBit(arr, p) <=> FlatBit(call.arr0, p))

\* a write across a word boundary that changes both words
C2_Witness ==
    /\ call.fn = "BitArray::set_bits" /\ ~signed /\ ValidArrRange /\ Crossing
    /\ FitsIn(call.value, e0 - s0)
    /\ ~ret.panic
    /\ arr[(s0 \div bit_length) + 1] # call.arr0[(s0 \div bit_length) + 1]
    /\ arr[(e0 \div bit_length) + 1] # call.arr0[(e0 \div bit_length) + 1]

----------------------------------------------------------------------------
(* C3 *)

\* C3: for an unsigned word, a range [s,e) with s < e <= W and a value below
\* 2^(e-s), BitField::set_bits does not panic and leaves the word with
\* exactly the bits [s,e) replaced by the value: get_bits(s..e) then returns
\* the value and the bits outside [s,e) are unchanged; the full-width range
\* 0..W included.
C3_WordSetBits ==
    (/\ call.fn = "BitField::set_bits" /\ ~signed /\ ValidWordRange
     /\ FitsIn(call.value, e0 - s0))
        => /\ ~ret.panic
           /\ self = Replaced(call.self0, s0, e0, call.value)
           /\ BitField_get_bits(self, s0, e0) = Ok(call.value)
           /\ \A i \in AllBits :
                 (i < s0 \/ i >= e0) => (i \in self <=> i \in call.self0)

\* a full-width write that changes the word
C3_Witness ==
    /\ call.fn = "BitField::set_bits" /\ ~signed
    /\ s0 = 0 /\ e0 = bit_length
    /\ ~ret.panic
    /\ self = call.value
    /\ self # call.self0

----------------------------------------------------------------------------
(* C4 *)

\* C4: for every word type, unsigned and signed, and a range [s,e) with
\* s < e <= W, BitField::get_bits returns the bits s..e of the word in its
\* low e-s bits and zeros above them (no sign extension).
C4_WordGetBits ==
    (call.fn = "BitField::get_bits" /\ ValidWordRange)
        => /\ ~ret.panic
           /\ ret.val = Field(call.self0, s0, e0)

----------------------------------------------------------------------------
(* C5 *)

\* C5: for every word type, unsigned and signed, and a range [s,e) with
\* s < e <= W, BitField::set_bits panics exactly when the value has a 1 at a
\* position >= e-s.
C5_WordSetBitsFaults ==
    (call.fn = "BitField::set_bits" /\ ValidWordRange)
        => (ret.panic <=> ~FitsIn(call.value, e0 - s0))

----------------------------------------------------------------------------
(* C6 *)

\* C6: for a signed word, a range [s,e) with s < e <= W and a value that
\* set_bits accepts, every bit of the word outside [s,e) is the same after
\* BitField::set_bits as before.
C6_SignedSetBitsFrame ==
    (/\ call.fn = "BitField::set_bits" /\ signed /\ ValidWordRange
     /\ ~ret.panic)
        => \A i \in AllBits :
              (i < s0 \/ i >= e0) => (i \in self <=> i \in call.self0)

----------------------------------------------------------------------------
(* C7 *)

\* the last call broke the contract of BitArray::get_bits / set_bits
Violation ==
    \/ s0 >= e0
    \/ e0 > BitArray_bit_length(call.arr0)
    \/ e0 - s0 > bit_length
    \/ call.fn = "BitArray::set_bits" /\ ~FitsIn(call.value, e0 - s0)

\* C7: on a slice of unsigned words, BitArray::get_bits and set_bits panic
\* whenever start >= end, end > len*W, e-s > W or (set_bits) the value has a
\* 1 at a position >= e-s; no such call returns.
C7_ArrayFaults ==
    (/\ call.fn \in {"BitArray::get_bits", "BitArray::set_bits"}
     /\ ~signed
     /\ Violation)
        => ret.panic

\* a write across a word boundary, in bounds, of a value that does not fit
C7_Witness ==
    /\ call.fn = "BitArray::set_bits" /\ ~signed /\ ValidArrRange /\ Crossing
    /\ ~FitsIn(call.value, e0 - s0)
    /\ ret.panic

----------------------------------------------------------------------------
(* C8 *)

\* C8: for every word type and i < W, BitField::set_bit(i, b) replaces bit i
\* by b and leaves the other bits, so get_bit(i) = b afterwards; for a slice
\* and i < len*W, BitArray::set_bit(i, b) changes only bit i mod W of word
\* i div W and BitArray::get_bit(i) then returns b.
C8_SetBit ==
    /\ (call.fn = "BitField::set_bit" /\ s0 < bit_length)
          => /\ ~ret.panic
             /\ self = (IF call.flag THEN call.self0 \cup {s0}
                                     ELSE call.self0 \ {s0})
             /\ BitField_get_bit(self, s0) = Ok(call.flag)
    /\ (call.fn = "BitArray::set_bit" /\ s0 < BitArray_bit_length(call.arr0))
          => /\ ~ret.panic
             /\ Len(arr) = Len(call.arr0)
             /\ \A p \in 0 .. (BitArray_bit_length(arr) - 1) :
                   FlatBit(arr, p) <=>
                       (IF p = s0 THEN call.flag ELSE FlatBit(call.arr0, p))
             /\ BitArray_get_bit(arr, s0) = Ok(call.flag)

\* a bit of the second word of a slice of signed words is cleared
C8_Witness ==
    /\ call.fn = "BitArray::set_bit" /\ signed
    /\ s0 >= bit_length /\ s0 < BitArray_bit_length(call.arr0)
    /\ ~call.flag
    /\ ~ret.panic
    /\ arr # call.arr0

----------------------------------------------------------------------------
(* C9 *)

\* the call set_bits(31..35, 0b1010) of the documentation of
\* BitArray::set_bits has returned
DocCall ==
    /\ call.fn = "BitArray::set_bits"
    /\ T = U32
    /\ s0 = 31 /\ e0 = 35
    /\ call.value = Lit(10)

\* C9 as stated: from the slice [0, 0] of u32 words, set_bits(31..35, 0b1010)
\* leaves [0x0003, 0b101] and get_bits(31..35) returns 0b1010.
C9_AsStated ==
    (DocCall /\ call.arr0 = <<Zero, Zero>>)
        => /\ ~ret.panic
           /\ arr = <<Lit(3), Lit(5)>>
           /\ BitArray_get_bits(arr, 31, 35) = Ok(Lit(10))

\* C9 amended: from the slice [0b11, 0] of u32 words (the slice [0, 0] after
\* the set_bits(0..2, 0b11) that precedes it in the documentation),
\* set_bits(31..35, 0b1010) leaves [0x0003, 0b101] and get_bits(31..35)
\* returns 0b1010.
C9_DocExample ==
    (DocCall /\ call.arr0 = <<Lit(3), Zero>>)
        => /\ ~ret.panic
           /\ arr = <<Lit(3), Lit(5)>>
           /\ BitArray_get_bits(arr, 31, 35) = Ok(Lit(10))

\* the second call of the documentation example has returned
C9_Witness ==
    /\ DocCall
    /\ call.arr0 = <<Lit(3), Zero>>
    /\ ~ret.panic
    /\ arr[2] = Lit(5)

----------------------------------------------------------------------------
(* C10 *)

\* C10 as stated: a set_bits call that panics leaves its target as it was,
\* the word for BitField::set_bits and every word of a slice of unsigned
\* words for BitArray::set_bits.
C10_AsStated ==
    /\ (call.fn = "BitField::set_bits" /\ ret.panic) => self = call.self0
    /\ (call.fn = "BitArray::set_bits" /\ ~signed /\ ret.panic)
          => arr = call.arr0

\* the call reached the first write of the cross-boundary case of
\* BitArray::set_bits
FirstHalfWritten ==
    /\ s0 < e0
    /\ e0 - s0 <= bit_length
    /\ Crossing
    /\ s0 \div bit_length < Len(call.arr0)

\* C10 amended: a BitField::set_bits that panics leaves the word as it was;
\* a BitArray::set_bits on unsigned words that panics leaves every word as
\* it was, except that in the cross-boundary case (panic because the value
\* does not fit in e-s bits or because the second word is past the end of
\* the slice) the first word has its bits [s mod W, W) replaced by the low
\* W - s mod W bits of the value.
C10_FaultEffect ==
    /\ (call.fn = "BitField::set_bits" /\ ret.panic) => self = call.self0
    /\ (call.fn = "BitArray::set_bits" /\ ~signed /\ ret.panic)
          => IF FirstHalfWritten
             THEN arr = [call.arr0 EXCEPT ![(s0 \div bit_length) + 1] =
                            Replaced(@, s0 % bit_length, bit_length,
                                     Field(call.value, 0,
                                           bit_length - (s0 % bit_length)))]
             ELSE arr = call.arr0

\* a cross-boundary write that panicked after it changed the first word
C10_Witness ==
    /\ call.fn = "BitArray::set_bits" /\ ~signed /\ ret.panic
    /\ FirstHalfWritten
    /\ arr # call.arr0

====
